---- MODULE Spec2Model ----
(***************************************************************************)
(* Model of the authenticated MCP gateway of src/test.py                   *)
(* (AuthenticatedMCPServer and its call_tool handler).                     *)
(*                                                                         *)
(* One AuthenticatedMCPServer object is shared by all requests and runs on *)
(* one asyncio event loop.  A coroutine runs without interruption between  *)
(* two suspension points; the only suspension point of call_tool is the    *)
(* HTTP POST to the auth service (src/test.py:45-48).  So a tools/call     *)
(* with a falsy token runs to completion in one step, and a tools/call     *)
(* with a token runs in two steps: up to the POST, and from the POST's     *)
(* outcome to the return.                                                  *)
(*                                                                         *)
(* Python values are tagged records: None, numbers, strings, dicts, lists. *)
(*                                                                         *)
(* The module also models POST /mcp of src/test.py, the stdio server of    *)
(* src/server.py (ServerSpec), the HTTP math server of src/math_test.py    *)
(* (MathSpec), and the MCP clients of src/mcp_client.py and                *)
(* src/llm_client.py with the web endpoints built on them, src/web_client  *)
(* .py and src/llm_web.py (ClientSpec).  Each client operation is run to   *)
(* completion by its caller (await in the scripts, asyncio.run in the web  *)
(* endpoints), so it is one step.                                          *)
(* datetime.utcnow() timestamps are left out of the dicts that carry them. *)
(***************************************************************************)
EXTENDS Integers, Sequences, FiniteSets, TLC

\* ------------------------------------------------------------------ bounds
\* tools/call invocations of the gateway of src/test.py.
MaxCalls == 2
\* Requests received by the servers (POST /mcp of src/test.py and the
\* requests of the stdio server of src/server.py), taken together.
MaxRequests == 3

\* ----------------------------------------------------------- Python values
None == [t |-> "none"]
Num(n) == [t |-> "num", n |-> n]
Str(s) == [t |-> "str", s |-> s]
Dict(f) == [t |-> "dict", d |-> f]
List(q) == [t |-> "list", l |-> q]

EmptyDict == Dict([k \in {} |-> None])

\* bool(v)
Truthy(v) ==
    CASE v.t = "none" -> FALSE
      [] v.t = "num"  -> v.n # 0
      [] v.t = "str"  -> v.s # ""
      [] v.t = "dict" -> DOMAIN v.d # {}
      [] v.t = "list" -> v.l # <<>>

\* d.get(k, default)
Get(v, k, default) == IF k \in DOMAIN v.d THEN v.d[k] ELSE default

\* type(v).__name__
TypeName(v) ==
    CASE v.t = "none" -> "NoneType"
      [] v.t = "num"  -> "int"
      [] v.t = "str"  -> "str"
      [] v.t = "dict" -> "dict"
      [] v.t = "list" -> "list"

\* str(e) of the AttributeError of v.attr
AttributeErrorMsg(v, attr) ==
    "'" \o TypeName(v) \o "' object has no attribute '" \o attr \o "'"

\* str(v) as used in an f-string
PyStr(v) ==
    CASE v.t = "none" -> "None"
      [] v.t = "str"  -> v.s
      [] v.t = "num"  -> ToString(v.n)
      [] OTHER        -> ToString(v)

\* ------------------------------------------------------------- constants
SERVER_NAME == "add-number-server"
AUTH_FAILED_MSG == "Authentication failed. Invalid or expired token."

\* ------------------------------------------------------- the auth service
\* What the POST of src/test.py:48 can produce: a response with a status
\* and a body, or an exception raised by httpx (connection refused, or the
\* client's default timeout when the service never answers).
JsonBody(v) == [kind |-> "json", value |-> v]
TextBody == [kind |-> "text"]
Response(status, body) == [kind |-> "response", status |-> status, body |-> body]
Raise(exc) == [kind |-> "raise", exc |-> exc]
NoHttp == [kind |-> "none"]

Alice == Dict([username |-> Str("alice"), user_id |-> Num(1), permissions |-> List(<<"add">>)])
Bob == Dict([username |-> Str("bob"), user_id |-> Num(2)])

\* The answer of a working auth service to the Authorization header.
ServiceAnswer(header) ==
    CASE header = "Bearer tok-alice" -> Response(200, JsonBody(Alice))
      [] header = "Bearer tok-bob"   -> Response(200, JsonBody(Bob))
      [] OTHER                       ->
           Response(401, JsonBody(Dict([detail |-> Str("invalid token")])))

\* Failures of the remote call, possible for every token.
RemoteFailures ==
    { Raise("ConnectError"), Raise("ReadTimeout"), Response(500, TextBody) }

HttpOutcomes(token) == {ServiceAnswer("Bearer " \o PyStr(token))} \cup RemoteFailures

\* ---------------------------------------------------- AuthenticatedMCPServer
\* The descriptor of add_numbers, as list_tools of src/test.py builds it.
ADD_NUMBERS_TOOL ==
    [name        |-> "add_numbers",
     description |-> "Add two numbers together (requires authentication)",
     inputSchema |-> [type       |-> "object",
                      properties |-> [auth_token |-> [type |-> "string"],
                                      a          |-> [type |-> "number"],
                                      b          |-> [type |-> "number"]],
                      required   |-> <<"auth_token", "a", "b">>]]

\* Variant: the status of the response is not looked at.
validate_token_ignoring_status(http) ==
    IF http.kind = "raise" THEN None
    ELSE IF http.body.kind # "json" THEN None
         ELSE IF http.body.value.t # "dict" THEN None
         ELSE http.body.value

\* validate_token_with_auth_service: auth_data or None, never an exception.
validate_token_with_auth_service(http) ==
    IF http.kind = "raise" THEN None
    ELSE IF http.status = 200
         THEN IF http.body.kind # "json" THEN None          \* response.json() raises
              ELSE IF http.body.value.t # "dict" THEN None  \* auth_data.get raises
              ELSE http.body.value
         ELSE None

\* The dict stored in self.current_user on success.
NewCurrentUser(auth_data) ==
    Dict([username    |-> Get(auth_data, "username", None),
          user_id     |-> Get(auth_data, "user_id", None),
          permissions |-> Get(auth_data, "permissions", List(<<>>))])

\* authenticate_request when the token is falsy: returns False and leaves
\* self.current_user as it is.
authenticate_no_token(cur) == [ok |-> FALSE, current_user |-> cur]

\* Variant: an identity already stored is kept for the next invocations.
authenticate_with_cached_identity(cur, auth_data) ==
    IF Truthy(auth_data)
    THEN [ok |-> TRUE,
          current_user |-> IF Truthy(cur) THEN cur ELSE NewCurrentUser(auth_data)]
    ELSE [ok |-> FALSE, current_user |-> None]

\* authenticate_request after validate_token_with_auth_service returned.
authenticate_with(cur, auth_data) ==
    IF Truthy(auth_data)
    THEN [ok |-> TRUE, current_user |-> NewCurrentUser(auth_data)]
    ELSE [ok |-> FALSE, current_user |-> None]

\* Variant: the result is not passed on (the parameter's default is None).
log_user_activity_dropping_result(cur, log, tool_name, arguments, result, id) ==
    IF ~Truthy(cur) THEN log
    ELSE Append(log, [username  |-> cur.d.username,
                      user_id   |-> cur.d.user_id,
                      tool_name |-> tool_name,
                      arguments |-> arguments,
                      result    |-> None,
                      server    |-> SERVER_NAME,
                      call      |-> id])

\* log_user_activity: the USER_ACTIVITY entry it writes, if any.  The field
\* call is not part of the entry: it records which invocation wrote it.
log_user_activity(cur, log, tool_name, arguments, result, id) ==
    IF ~Truthy(cur) THEN log
    ELSE Append(log, [username  |-> cur.d.username,
                      user_id   |-> cur.d.user_id,
                      tool_name |-> tool_name,
                      arguments |-> arguments,
                      result    |-> result,
                      server    |-> SERVER_NAME,
                      call      |-> id])

\* Variant: numbers are subtracted.
PyAdd_subtracting(a, b) ==
    CASE a.t = "num" /\ b.t = "num" -> [ok |-> TRUE, value |-> Num(a.n - b.n)]
      [] a.t = "str" /\ b.t = "str" -> [ok |-> TRUE, value |-> Str(a.s \o b.s)]
      [] OTHER -> [ok |-> FALSE, msg |-> "unsupported operand type(s)"]

\* a + b: [ok, value] or [ok = FALSE, msg = str(e)]
PyAdd(a, b) ==
    CASE a.t = "num" /\ b.t = "num" -> [ok |-> TRUE, value |-> Num(a.n + b.n)]
      [] a.t = "str" /\ b.t = "str" -> [ok |-> TRUE, value |-> Str(a.s \o b.s)]
      [] a.t = "str" ->
           [ok |-> FALSE,
            msg |-> "can only concatenate str (not \"" \o TypeName(b) \o "\") to str"]
      [] OTHER ->
           [ok |-> FALSE,
            msg |-> "unsupported operand type(s) for +: '" \o TypeName(a)
                    \o "' and '" \o TypeName(b) \o "'"]

\* Variant: the message is put under another key.
ErrorEnvelope_message_key(msg) == [success |-> FALSE, message |-> msg]

ErrorEnvelope(msg) == [success |-> FALSE, error |-> msg]

\* An exception that leaves a function instead of a return value.
Raised(msg) == [raised |-> msg]

\* Variant: no try/except around the addition.
handle_add_numbers_uncaught(cur, log, args, id) ==
    LET a == Get(args, "a", None)
        b == Get(args, "b", None)
        sum == PyAdd(a, b)
    IN IF sum.ok
       THEN LET response == [success      |-> TRUE,
                             operation    |-> "addition",
                             operands     |-> <<a, b>>,
                             result       |-> sum.value,
                             performed_by |-> cur.d.username]
            IN [response |-> response,
                log      |-> log_user_activity(cur, log, "add_numbers", args, response, id)]
       ELSE [response |-> Raised(sum.msg), log |-> log]

\* handle_add_numbers: [response, log]
handle_add_numbers(cur, log, args, id) ==
    LET a == Get(args, "a", None)
        b == Get(args, "b", None)
        sum == PyAdd(a, b)
    IN IF sum.ok
       THEN LET response == [success      |-> TRUE,
                             operation    |-> "addition",
                             operands     |-> <<a, b>>,
                             result       |-> sum.value,
                             performed_by |-> cur.d.username]
            IN [response |-> response,
                log      |-> log_user_activity(cur, log, "add_numbers", args, response, id)]
       ELSE LET error_msg == "Error in add_numbers: " \o sum.msg
            IN [response |-> ErrorEnvelope(error_msg),
                log      |-> log_user_activity(cur, log, "add_numbers", args,
                                               [error |-> error_msg], id)]

\* Variant: the tool name is looked up before the result of the
\* authentication is looked at.
call_tool_resolving_first(auth, log, name, arguments, id) ==
    IF name # "add_numbers"
    THEN LET error_msg == "Unknown tool: " \o name
         IN [response |-> ErrorEnvelope(error_msg),
             log      |-> log_user_activity(auth.current_user, log, name, arguments,
                                            [error |-> error_msg], id),
             trace    |-> <<"resolve", "log", "return">>]
    ELSE IF ~auth.ok
         THEN [response |-> ErrorEnvelope(AUTH_FAILED_MSG),
               log      |-> log_user_activity(auth.current_user, log, name, arguments,
                                              [error |-> AUTH_FAILED_MSG], id),
               trace    |-> <<"resolve", "auth_failed", "log", "return">>]
         ELSE LET h == handle_add_numbers(auth.current_user, log, arguments, id)
              IN [response |-> h.response, log |-> h.log,
                  trace |-> <<"resolve", "auth_ok", "handler", "log", "return">>]

\* Variant: the authentication failure names the tool.
call_tool_naming_tool(auth, log, name, arguments, id) ==
    IF ~auth.ok
    THEN LET error_msg == "Authentication failed for tool " \o name
         IN [response |-> ErrorEnvelope(error_msg),
             log      |-> log_user_activity(auth.current_user, log, name, arguments,
                                            [error |-> error_msg], id),
             trace    |-> <<"auth_failed", "log", "return">>]
    ELSE IF name = "add_numbers"
         THEN LET h == handle_add_numbers(auth.current_user, log, arguments, id)
              IN [response |-> h.response, log |-> h.log,
                  trace |-> <<"auth_ok", "resolve", "handler", "log", "return">>]
         ELSE LET error_msg == "Unknown tool: " \o name
              IN [response |-> ErrorEnvelope(error_msg),
                  log      |-> log_user_activity(auth.current_user, log, name, arguments,
                                                 [error |-> error_msg], id),
                  trace    |-> <<"auth_ok", "resolve", "log", "return">>]

\* Variant: an unknown tool name raises.
call_tool_unknown_raises(auth, log, name, arguments, id) ==
    IF ~auth.ok
    THEN [response |-> ErrorEnvelope(AUTH_FAILED_MSG),
          log      |-> log_user_activity(auth.current_user, log, name, arguments,
                                         [error |-> AUTH_FAILED_MSG], id),
          trace    |-> <<"auth_failed", "log", "return">>]
    ELSE IF name = "add_numbers"
         THEN LET h == handle_add_numbers(auth.current_user, log, arguments, id)
              IN [response |-> h.response, log |-> h.log,
                  trace |-> <<"auth_ok", "resolve", "handler", "log", "return">>]
         ELSE [response |-> Raised("Unknown tool: " \o name), log |-> log,
               trace    |-> <<"auth_ok", "resolve", "raise">>]

\* call_tool from the return of authenticate_request to its own return:
\* [response, log, trace].  The trace lists, in order, what call_tool did.
call_tool_after_auth(auth, log, name, arguments, id) ==
    IF ~auth.ok
    THEN [response |-> ErrorEnvelope(AUTH_FAILED_MSG),
          log      |-> log_user_activity(auth.current_user, log, name, arguments,
                                         [error |-> AUTH_FAILED_MSG], id),
          trace    |-> <<"auth_failed", "log", "return">>]
    ELSE IF name = "add_numbers"
         THEN LET h == handle_add_numbers(auth.current_user, log, arguments, id)
              IN [response |-> h.response, log |-> h.log,
                  trace |-> <<"auth_ok", "resolve", "handler", "log", "return">>]
         ELSE LET error_msg == "Unknown tool: " \o name
              IN [response |-> ErrorEnvelope(error_msg),
                  log      |-> log_user_activity(auth.current_user, log, name, arguments,
                                                 [error |-> error_msg], id),
                  trace    |-> <<"auth_ok", "resolve", "log", "return">>]

\* ------------------------------------------------------------------- inputs
\* The tools/call requests, <<name, auth_token, a, b>>; None stands for a key
\* that is absent.  tok-alice and tok-bob are tokens the auth service accepts,
\* expired is one it rejects.  add_numbers is called with numbers, with a
\* missing operand and with strings; multiply is not a registered tool.
\* arguments is always a dict.
Requests ==
    { <<"add_numbers", Str("tok-alice"), Num(10), Num(5)>>,
      <<"add_numbers", Str("tok-alice"), Num(-7), Num(7)>>,
      <<"add_numbers", Str("tok-alice"), None, Num(5)>>,
      <<"add_numbers", Str("tok-alice"), Str("x"), Str("y")>>,
      <<"multiply",    Str("tok-alice"), Num(10), Num(5)>>,
      <<"add_numbers", Str("tok-bob"), Num(10), Num(5)>>,
      <<"multiply",    Str("tok-bob"), Num(10), Num(5)>>,
      <<"add_numbers", Str("expired"), Num(10), Num(5)>>,
      <<"multiply",    Str("expired"), Num(10), Num(5)>>,
      <<"add_numbers", None, Num(10), Num(5)>>,
      <<"multiply",    None, Num(10), Num(5)>> }

\* The arguments dict of a request.
Arguments(rq) ==
    LET all == [auth_token |-> rq[2], a |-> rq[3], b |-> rq[4]]
    IN Dict([k \in {x \in DOMAIN all : all[x] # None} |-> all[k]])

\* -------------------------------------------------------------------- state
\* current_user, audit_log, calls: the gateway of src/test.py.
\* posts: the POST /mcp requests of src/test.py and what was sent back.
\* iq_calls: the requests handled by the stdio server of src/server.py.
VARIABLES current_user, audit_log, calls, posts, iq_calls

\* math_posts: the POST requests of the HTTP math server of src/math_test.py
\* and what was sent back.
VARIABLES math_posts

\* math_client: the MCPMathClient object of src/mcp_client.py (its
\* available_tools) and the operations run on it.
VARIABLES math_client

\* llm_client: the LLMMathClient object of src/llm_client.py (its
\* available_tools) and the operations run on it.
\* chat_posts: the POST /chat requests of src/llm_web.py and their answers.
VARIABLES llm_client, chat_posts

\* calc_posts: the POST /calculate requests of src/web_client.py and their
\* answers.
VARIABLES calc_posts

\* The state of the programs other than the two MCP servers.
client_vars == <<math_posts, math_client, llm_client, chat_posts, calc_posts>>

vars == <<current_user, audit_log, calls, posts, iq_calls, client_vars>>

Init ==
    /\ current_user = None
    /\ audit_log = <<>>
    /\ calls = <<>>
    /\ posts = <<>>
    /\ iq_calls = <<>>
    /\ math_posts = <<>>
    /\ math_client = [available_tools |-> <<>>, ops |-> <<>>]
    /\ llm_client = [available_tools |-> <<>>, ops |-> <<>>]
    /\ chat_posts = <<>>
    /\ calc_posts = <<>>

NewCall(name, arguments) ==
    [name |-> name, arguments |-> arguments, pc |-> "start",
     http |-> NoHttp, auth_data |-> None, trace |-> <<>>, response |-> None]

\* A tools/call whose auth_token is falsy: call_tool runs to its return.
CallToolNoToken(name, arguments) ==
    LET id == Len(calls) + 1
        auth_token == Get(arguments, "auth_token", None)
        auth == authenticate_no_token(current_user)
        r == call_tool_after_auth(auth, audit_log, name, arguments, id)
    IN /\ Len(calls) < MaxCalls
       /\ ~Truthy(auth_token)
       /\ current_user' = auth.current_user
       /\ audit_log' = r.log
       /\ calls' = Append(calls, [NewCall(name, arguments) EXCEPT
                                     !.pc = "done", !.trace = r.trace,
                                     !.response = r.response])

\* A tools/call with a token: call_tool runs up to the POST to the auth service.
CallToolSend(name, arguments) ==
    LET auth_token == Get(arguments, "auth_token", None)
    IN /\ Len(calls) < MaxCalls
       /\ Truthy(auth_token)
       /\ calls' = Append(calls, [NewCall(name, arguments) EXCEPT
                                     !.pc = "awaiting", !.trace = <<"validate">>])
       /\ UNCHANGED <<current_user, audit_log>>

\* The POST completes with http; call_tool runs from there to its return.
CallToolResume(id, http) ==
    LET c == calls[id]
        auth_data == validate_token_with_auth_service(http)
        auth == authenticate_with(current_user, auth_data)
        r == call_tool_after_auth(auth, audit_log, c.name, c.arguments, id)
    IN /\ c.pc = "awaiting"
       /\ current_user' = auth.current_user
       /\ audit_log' = r.log
       /\ calls' = [calls EXCEPT ![id] = [c EXCEPT
                                     !.pc = "done", !.http = http,
                                     !.auth_data = auth_data,
                                     !.trace = c.trace \o r.trace,
                                     !.response = r.response]]

\* The POST to the auth service ends: with a response, with a transport
\* error, or with the timeout of the httpx client.
Resume ==
    \E id \in DOMAIN calls :
        \E http \in HttpOutcomes(Get(calls[id].arguments, "auth_token", None)) :
            CallToolResume(id, http)

\* Resume when call_tool was invoked directly.
GatewayResume == Resume /\ UNCHANGED <<posts, iq_calls, client_vars>>

\* The gateway alone: call_tool invoked directly.
Next ==
    \/ \E rq \in Requests :
           CallToolNoToken(rq[1], Arguments(rq)) /\ UNCHANGED <<posts, iq_calls, client_vars>>
    \/ \E rq \in Requests :
           CallToolSend(rq[1], Arguments(rq)) /\ UNCHANGED <<posts, iq_calls, client_vars>>
    \/ GatewayResume

Spec == Init /\ [][Next]_vars

\* httpx.AsyncClient() has a timeout on every network operation, so the
\* POST of a waiting call always ends.
LiveSpec == Spec /\ WF_vars(GatewayResume)

\* ------------------------------------------------ POST /mcp (src/test.py)
METHOD_NOT_FOUND == -32601
INTERNAL_ERROR == -32603

\* An HTTP request: its headers and its body, a text json.loads rejects
\* (TextBody) or a JSON value (JsonBody).
HttpRequest(headers, body) == [headers |-> headers, body |-> body]

NoHeaders == [h \in {} |-> ""]

ToolsCall(id, name, arguments) ==
    JsonBody(Dict([jsonrpc |-> Str("2.0"), id |-> Num(id), method |-> Str("tools/call"),
                   params |-> Dict([name |-> Str(name), arguments |-> arguments])]))

\* The requests posted to /mcp.
PostRequests ==
    { HttpRequest(NoHeaders, TextBody),
      HttpRequest(NoHeaders, JsonBody(List(<<>>))),
      HttpRequest(NoHeaders, JsonBody(Dict([id |-> Num(1), method |-> Str("tools/list")]))),
      HttpRequest(NoHeaders, JsonBody(Dict([id |-> Num(2), method |-> Str("resources/list")]))),
      HttpRequest(NoHeaders,
                  ToolsCall(3, "add_numbers",
                            Dict([auth_token |-> Str("tok-alice"), a |-> Num(10), b |-> Num(5)]))),
      HttpRequest(NoHeaders,
                  ToolsCall(4, "add_numbers",
                            Dict([auth_token |-> Str("tok-alice"), b |-> Num(5)]))),
      HttpRequest([Authorization |-> "Bearer tok-alice"],
                  ToolsCall(5, "add_numbers", Dict([a |-> Num(10), b |-> Num(5)]))),
      HttpRequest(NoHeaders, ToolsCall(6, "add_numbers", None)),
      HttpRequest(NoHeaders,
                  JsonBody(Dict([id |-> Num(7), method |-> Str("tools/call"),
                                 params |-> List(<<>>)]))) }

ResultLine(id, result) == [jsonrpc |-> "2.0", id |-> id, result |-> result]
ErrorLine(id, code, message) ==
    [jsonrpc |-> "2.0", id |-> id, error |-> [code |-> code, message |-> message]]

\* What generate_response does with a body, up to a call of call_tool.
Escapes(exc) == [kind |-> "escape", exc |-> exc]
Yields(line) == [kind |-> "line", line |-> line]
Calls(id, name, arguments) ==
    [kind |-> "call", id |-> id, name |-> name, arguments |-> arguments]

\* Variant: the tools are listed only while a user is stored.
list_tools_when_authenticated ==
    IF Truthy(current_user) THEN <<ADD_NUMBERS_TOOL>> ELSE <<>>

\* list_tools of src/test.py.
list_tools == <<ADD_NUMBERS_TOOL>>

\* The line of the except branch for a request_data that is a dict.
InternalError(request_data, text) ==
    Yields(ErrorLine(Get(request_data, "id", None), INTERNAL_ERROR,
                     "Internal error: " \o text))

\* generate_response: the except branch reads request_data.get("id"), which
\* itself raises when json.loads failed (request_data is unbound) or when
\* request_data is no dict; that exception leaves the generator.  The result
\* of model_dump() is kept as the payload it was built from, and
\* server._list_tools_handler and server._call_tool_handler are taken to run
\* the list_tools and call_tool registered in setup_handlers.
generate_response(body) ==
    IF body.kind # "json"
    THEN Escapes("cannot access local variable 'request_data'")
    ELSE LET request_data == body.value
         IN IF request_data.t # "dict"
            THEN Escapes(AttributeErrorMsg(request_data, "get"))
            ELSE LET id == Get(request_data, "id", None)
                     method == Get(request_data, "method", None)
                 IN IF method = Str("tools/list")
                    THEN Yields(ResultLine(id, [tools |-> list_tools]))
                    ELSE IF method = Str("tools/call")
                    THEN LET params == Get(request_data, "params", EmptyDict)
                         IN IF params.t # "dict"
                            THEN InternalError(request_data, AttributeErrorMsg(params, "get"))
                            ELSE LET tool_name == Get(params, "name", None)
                                     arguments == Get(params, "arguments", EmptyDict)
                                 IN IF arguments.t # "dict"
                                    THEN InternalError(request_data,
                                                       AttributeErrorMsg(arguments, "get"))
                                    ELSE Calls(id, PyStr(tool_name), arguments)
                    ELSE Yields(ErrorLine(id, METHOD_NOT_FOUND, "Method not found"))

NewPost(req) ==
    [request |-> req, pc |-> "done", call |-> 0, lines |-> <<>>, raised |-> ""]

RequestsLeft == Len(posts) + Len(iq_calls) < MaxRequests

\* A POST /mcp that does not reach call_tool: one line, or an exception that
\* leaves the generator.
PostMcp(req) ==
    LET g == generate_response(req.body)
    IN /\ RequestsLeft
       /\ g.kind \in {"line", "escape"}
       /\ posts' = Append(posts,
                          IF g.kind = "line"
                          THEN [NewPost(req) EXCEPT !.lines = <<g.line>>]
                          ELSE [NewPost(req) EXCEPT !.raised = g.exc])
       /\ UNCHANGED <<current_user, audit_log, calls, iq_calls, client_vars>>

\* A POST /mcp with tools/call and no auth_token: call_tool runs to its return.
PostMcpCallNoToken(req) ==
    LET g == generate_response(req.body)
    IN /\ RequestsLeft
       /\ g.kind = "call"
       /\ CallToolNoToken(g.name, g.arguments)
       /\ posts' = Append(posts,
                          [NewPost(req) EXCEPT
                              !.call = Len(calls'),
                              !.lines = <<ResultLine(g.id, calls'[Len(calls')].response)>>])
       /\ UNCHANGED <<iq_calls, client_vars>>

\* A POST /mcp with tools/call and a token: up to the POST to the auth service.
PostMcpCallSend(req) ==
    LET g == generate_response(req.body)
    IN /\ RequestsLeft
       /\ g.kind = "call"
       /\ CallToolSend(g.name, g.arguments)
       /\ posts' = Append(posts, [NewPost(req) EXCEPT !.pc = "awaiting", !.call = Len(calls')])
       /\ UNCHANGED <<iq_calls, client_vars>>

\* The auth service's outcome arrives: call_tool returns and the line is sent.
PostMcpResume(p, http) ==
    LET id == posts[p].call
    IN /\ posts[p].pc = "awaiting"
       /\ CallToolResume(id, http)
       /\ posts' = [posts EXCEPT
                       ![p].pc = "done",
                       ![p].lines = <<ResultLine(generate_response(posts[p].request.body).id,
                                                 calls'[id].response)>>]
       /\ UNCHANGED <<iq_calls, client_vars>>

\* ------------------------------------------------ stdio server (src/server.py)
IQ_TOOLS ==
    << [name        |-> "get_energy_consumption_or_cost",
        description |-> "Get Energy consumption for specific period of time as per the user request",
        inputSchema |-> [type       |-> "object",
                         properties |-> [startDate |-> [type |-> "string"],
                                         endDate   |-> [type |-> "string"]]]],
       [name        |-> "get_iqnext_cloud_version",
        description |-> "Get the IQNext Cloud version information",
        inputSchema |-> [type |-> "object", properties |-> [x \in {} |-> ""]]] >>

\* list_tools of src/server.py.
iq_list_tools == IQ_TOOLS

Returned(content) == [returned |-> content]
TextContent(text) == [type |-> "text", text |-> text]

\* What httpx.get of the version API can produce (src/server.py:49).
VersionApiOutcomes ==
    { Response(200, JsonBody(Dict([success |-> Dict([data |-> Str("4.2.0")])]))),
      Response(200, JsonBody(EmptyDict)),
      Response(200, TextBody),
      Response(500, JsonBody(Dict([error |-> Str("internal")]))),
      Raise("ConnectError") }

\* call_tool of src/server.py; api is the outcome of httpx.get when the
\* version tool is called.
iq_call_tool(name, arguments, api) ==
    IF name = "get_iqnext_cloud_version"
    THEN IF api.kind = "raise" THEN Raised(api.exc)
         ELSE IF api.body.kind # "json" THEN Raised("Expecting value: line 1 column 1 (char 0)")
         ELSE LET res == api.body.value
              IN IF Truthy(res)
                 THEN IF res.t # "dict" THEN Raised(AttributeErrorMsg(res, "get"))
                      ELSE LET success == Get(res, "success", None)
                           IN IF success.t # "dict"
                              THEN Raised(AttributeErrorMsg(success, "get"))
                              ELSE Returned(<<TextContent(PyStr(Get(success, "data", None)))>>)
                 ELSE Returned(<<TextContent("Failed to get cloud version")>>)
    ELSE IF name = "get_energy_consumption_or_cost"
    THEN Returned(<<TextContent("Energy consumption from "
                                \o PyStr(Get(arguments, "startDate", Str("")))
                                \o " to " \o PyStr(Get(arguments, "endDate", Str("")))
                                \o " is 200kWh")>>)
    ELSE Returned(<<TextContent("Unknown tool: " \o name)>>)

\* <<name, arguments>> of the calls made to the stdio server.
IqRequests ==
    { <<"get_iqnext_cloud_version", EmptyDict>>,
      <<"get_energy_consumption_or_cost",
        Dict([startDate |-> Str("2025-01-01"), endDate |-> Str("2025-01-31")])>>,
      <<"get_energy_consumption_or_cost", EmptyDict>>,
      <<"get_weather", EmptyDict>> }

IqListTools ==
    /\ RequestsLeft
    /\ iq_calls' = Append(iq_calls, [kind |-> "list", result |-> iq_list_tools])
    /\ UNCHANGED <<current_user, audit_log, calls, posts, client_vars>>

IqCallTool(name, arguments, api) ==
    /\ RequestsLeft
    /\ (name = "get_iqnext_cloud_version") <=> (api # NoHttp)
    /\ iq_calls' = Append(iq_calls,
                          [kind |-> "call", name |-> name, arguments |-> arguments,
                           api |-> api, result |-> iq_call_tool(name, arguments, api)])
    /\ UNCHANGED <<current_user, audit_log, calls, posts, client_vars>>

\* Both servers, each handling the requests it receives.
ServerNext ==
    \/ \E req \in PostRequests : PostMcp(req)
    \/ \E req \in PostRequests : PostMcpCallNoToken(req)
    \/ \E req \in PostRequests : PostMcpCallSend(req)
    \/ \E p \in {q \in DOMAIN posts : posts[q].pc = "awaiting"} :
           \E http \in HttpOutcomes(Get(calls[posts[p].call].arguments, "auth_token", None)) :
               PostMcpResume(p, http)
    \/ IqListTools
    \/ \E rq \in IqRequests, api \in VersionApiOutcomes \cup {NoHttp} :
           IqCallTool(rq[1], rq[2], api)

ServerSpec == Init /\ [][ServerNext]_vars

\* ------------------------------- HTTP math server (src/math_test.py)
\* Posts handled by the HTTP math server.
MaxMathPosts == 2

\* The variables of the two MCP servers.
server_vars == <<current_user, audit_log, calls, posts, iq_calls>>

\* A Python float that is the quotient num / den of two ints, in lowest
\* terms with den > 0.
Float(num, den) == [t |-> "float", num |-> num, den |-> den]

Abs(n) == IF n < 0 THEN 0 - n ELSE n

RECURSIVE GCD(_, _)
GCD(m, n) == IF n = 0 THEN m ELSE GCD(n, m % n)

RECURSIVE Repeat(_, _)
Repeat(s, n) == IF n <= 0 THEN "" ELSE s \o Repeat(s, n - 1)

\* a * b: [ok, value] or [ok = FALSE, msg = str(e)]
PyMul(a, b) ==
    CASE a.t = "num" /\ b.t = "num" -> [ok |-> TRUE, value |-> Num(a.n * b.n)]
      [] a.t = "str" /\ b.t = "num" -> [ok |-> TRUE, value |-> Str(Repeat(a.s, b.n))]
      [] a.t = "num" /\ b.t = "str" -> [ok |-> TRUE, value |-> Str(Repeat(b.s, a.n))]
      [] a.t = "str" \/ b.t = "str" ->
           [ok |-> FALSE,
            msg |-> "can't multiply sequence by non-int of type '"
                    \o TypeName(IF a.t = "str" THEN b ELSE a) \o "'"]
      [] OTHER ->
           [ok |-> FALSE,
            msg |-> "unsupported operand type(s) for *: '" \o TypeName(a)
                    \o "' and '" \o TypeName(b) \o "'"]

\* Variant: the quotient is floored, as by //.
PyTrueDiv_floored(a, b) ==
    CASE a.t = "num" /\ b.t = "num" /\ b.n # 0 ->
           [ok |-> TRUE, value |-> Num(IF b.n > 0 THEN a.n \div b.n
                                       ELSE (0 - a.n) \div (0 - b.n))]
      [] OTHER -> [ok |-> FALSE, msg |-> "division by zero"]

\* a / b: [ok, value] or [ok = FALSE, msg = str(e)]
PyTrueDiv(a, b) ==
    CASE a.t = "num" /\ b.t = "num" /\ b.n # 0 ->
           LET g == GCD(Abs(a.n), Abs(b.n))
               sign == IF b.n < 0 THEN 0 - 1 ELSE 1
           IN [ok |-> TRUE,
               value |-> Float(sign * (a.n \div g), sign * (b.n \div g))]
      [] a.t = "num" /\ b.t = "num" -> [ok |-> FALSE, msg |-> "division by zero"]
      [] OTHER ->
           [ok |-> FALSE,
            msg |-> "unsupported operand type(s) for /: '" \o TypeName(a)
                    \o "' and '" \o TypeName(b) \o "'"]

\* execute_function: the mapping it returns, or the exception it raises.
execute_function(function_name, args) ==
    IF function_name \in {Str("add"), Str("multiply"), Str("divide")} /\ args.t # "dict"
    THEN Raised(AttributeErrorMsg(args, "get"))
    ELSE IF function_name = Str("add")
    THEN LET r == PyAdd(Get(args, "a", Num(0)), Get(args, "b", Num(0)))
         IN IF r.ok THEN Returned([result |-> r.value]) ELSE Raised(r.msg)
    ELSE IF function_name = Str("multiply")
    THEN LET r == PyMul(Get(args, "a", Num(0)), Get(args, "b", Num(0)))
         IN IF r.ok THEN Returned([result |-> r.value]) ELSE Raised(r.msg)
    ELSE IF function_name = Str("divide")
    THEN LET a == Get(args, "a", Num(0))
             b == Get(args, "b", Num(1))
             r == PyTrueDiv(a, b)
         IN IF b = Num(0) THEN Returned([error |-> "Division by zero"])
            ELSE IF r.ok THEN Returned([result |-> r.value]) ELSE Raised(r.msg)
    ELSE Returned([error |-> "Unknown function: " \o PyStr(function_name)])

\* execute_function was not called.
NotExecuted == [executed |-> FALSE]

\* What do_POST did: the responses it sent, the exception that left it, and
\* what execute_function gave when it was called.
Handled(responses, raised, executed) ==
    [responses |-> responses, raised |-> raised, executed |-> executed]

\* send_response(200) with the JSON body; send_error(500, message).
Sent200(body) == [status |-> 200, body |-> body]
Sent500(message) == [status |-> 500, message |-> message]

\* do_POST.  self.headers['Content-Length'] is None when the header is
\* missing, and int(None) raises outside the try block.
do_POST(path, headers, body) ==
    IF path # "/call"
    THEN Handled(<<>>, "", NotExecuted)
    ELSE IF "Content-Length" \notin DOMAIN headers
    THEN Handled(<<>>,
                 "int() argument must be a string, a bytes-like object or a real number, not 'NoneType'",
                 NotExecuted)
    ELSE IF body.kind # "json"
    THEN Handled(<<Sent500("Expecting value: line 1 column 1 (char 0)")>>, "", NotExecuted)
    ELSE LET data == body.value
         IN IF data.t # "dict"
            THEN Handled(<<Sent500(AttributeErrorMsg(data, "get"))>>, "", NotExecuted)
            ELSE LET result == execute_function(Get(data, "function", None),
                                                Get(data, "args", EmptyDict))
                 IN IF "returned" \in DOMAIN result
                    THEN Handled(<<Sent200(result.returned)>>, "", result)
                    ELSE Handled(<<Sent500(result.raised)>>, "", result)

MathCall(function, args) ==
    JsonBody(Dict([function |-> Str(function), args |-> args]))

\* The bodies posted to the math server.
MathBodies ==
    { TextBody,
      JsonBody(List(<<>>)),
      JsonBody(Dict([args |-> Dict([a |-> Num(1)])])),
      MathCall("add", Dict([a |-> Num(2), b |-> Num(3)])),
      MathCall("add", Dict([a |-> Num(2)])),
      MathCall("add", Dict([a |-> Str("x"), b |-> Num(1)])),
      MathCall("add", None),
      MathCall("multiply", Dict([a |-> Num(2), b |-> Num(3)])),
      MathCall("multiply", Dict([b |-> Num(3)])),
      MathCall("divide", Dict([a |-> Num(7), b |-> Num(2)])),
      MathCall("divide", Dict([a |-> Num(6), b |-> Num(0 - 4)])),
      MathCall("divide", Dict([a |-> Num(7)])),
      MathCall("divide", Dict([b |-> Num(5)])),
      MathCall("divide", Dict([a |-> Num(7), b |-> Num(0)])),
      MathCall("sqrt", Dict([a |-> Num(4)])),
      MathCall("sqrt", None) }

WithLength == [h \in {"Content-Length"} |-> "n"]

\* The POST requests: every body on /call with its length, and one body on
\* another path and without the Content-Length header.
MathRequests ==
    {<<"/call", WithLength, body>> : body \in MathBodies}
    \cup {<<path, headers, MathCall("add", Dict([a |-> Num(2), b |-> Num(3)]))>> :
              path \in {"/call", "/"}, headers \in {WithLength, NoHeaders}}

\* The math server handles one POST request.
MathPost(path, headers, body) ==
    /\ Len(math_posts) < MaxMathPosts
    /\ math_posts' = Append(math_posts,
                            [path |-> path, headers |-> headers, body |-> body,
                             handled |-> do_POST(path, headers, body)])
    /\ UNCHANGED <<server_vars, math_client, llm_client, chat_posts, calc_posts>>

MathNext == \E rq \in MathRequests : MathPost(rq[1], rq[2], rq[3])

MathSpec == Init /\ [][MathNext]_vars

\* ------------------------------------ MCP clients over stdio (src/mcp_client.py)
\* Operations run on the clients, taken together.
MaxClientOps == 2

\* The tools of the server started by "uv run maths.py" (src/maths.py), and
\* those of another server the client may be constructed for.
MATHS_TOOLS == <<"add_numbers", "subtract_numbers", "multiply_numbers">>
OTHER_TOOLS == <<"multiply_numbers", "get_iqnext_cloud_version", "add_numbers">>

\* The result of session.call_tool: a list of text content.
CallToolResult(content) == [content |-> content]

\* What the server process and the session do during one operation:
\* stdio_client starts the server or raises, initialize succeeds or raises,
\* list_tools returns tools or raises, call_tool returns a result or raises.
Env(transport, initialize, list, call) ==
    [transport |-> transport, initialize |-> initialize, list |-> list, call |-> call]

Listed(tools) == [returned |-> tools]

ClientEnvs ==
    { Env("ok", "ok", Listed(MATHS_TOOLS), Returned(CallToolResult(<<TextContent("40")>>))),
      Env("raise", "ok", Listed(MATHS_TOOLS), Returned(CallToolResult(<<TextContent("40")>>))),
      Env("ok", "raise", Listed(MATHS_TOOLS), Returned(CallToolResult(<<TextContent("40")>>))),
      Env("ok", "ok", Raised("Connection closed"), Returned(CallToolResult(<<TextContent("40")>>))),
      Env("ok", "ok", Listed(OTHER_TOOLS), Returned(CallToolResult(<<TextContent("40")>>))),
      Env("ok", "ok", Listed(MATHS_TOOLS), Raised("Timed out while waiting for response")),
      Env("ok", "ok", Listed(MATHS_TOOLS),
          Returned(CallToolResult(<<TextContent("Unknown tool: power")>>))),
      Env("ok", "ok", Listed(MATHS_TOOLS), Returned(CallToolResult(<<>>))) }

\* The keys of {tool.name: tool for tool in tools}, in insertion order.
RECURSIVE KeysOf(_)
KeysOf(names) ==
    IF names = <<>> THEN <<>>
    ELSE LET front == KeysOf(SubSeq(names, 1, Len(names) - 1))
             last == names[Len(names)]
         IN IF \E i \in DOMAIN front : front[i] = last THEN front
            ELSE Append(front, last)

Has(keys, name) == \E i \in DOMAIN keys : keys[i] = name

\* json.loads of a text, for the texts that are decimal numerals.
DIGITS == "0123456789"

IsDigit(c) == \E d \in 1..10 : SubSeq(DIGITS, d, d) = c

DigitValue(c) == (CHOOSE d \in 1..10 : SubSeq(DIGITS, d, d) = c) - 1

IsNumeral(text) ==
    /\ Len(text) > 0
    /\ \A i \in 1..Len(text) : IsDigit(SubSeq(text, i, i))
    /\ Len(text) = 1 \/ SubSeq(text, 1, 1) # "0"

RECURSIVE NumeralValue(_)
NumeralValue(text) ==
    IF Len(text) = 0 THEN 0
    ELSE 10 * NumeralValue(SubSeq(text, 1, Len(text) - 1))
         + DigitValue(SubSeq(text, Len(text), Len(text)))

\* json.loads(text): [ok, value], or [ok = FALSE] for JSONDecodeError.
json_loads(text) ==
    IF IsNumeral(text) THEN [ok |-> TRUE, value |-> Num(NumeralValue(text))]
    ELSE [ok |-> FALSE]

\* The value call_tool extracts from the result of session.call_tool.
extract_result(result) ==
    IF result.content = <<>> THEN Str("meta=None content=[] isError=False")
    ELSE LET text == result.content[1].text
             parsed == json_loads(text)
         IN IF parsed.ok THEN parsed.value ELSE Str(text)

\* The trace of an operation whose transport and session were entered.
ENTERED == <<"open_transport", "open_session">>

\* Variant: the with blocks are left without closing anything.
Leaving_open(trace) == trace

\* Leaving the two "async with" blocks, by return or by exception.
Leaving(trace) == trace \o <<"close_session", "close_transport">>

\* Position of the last occurrence of e in trace, 0 when there is none.
LastAt(trace, e) ==
    IF \E i \in DOMAIN trace : trace[i] = e
    THEN CHOOSE i \in DOMAIN trace : trace[i] = e /\ \A j \in DOMAIN trace : trace[j] = e => j <= i
    ELSE 0

\* The session object as its holder finds it after trace.
SessionAfter(trace) ==
    IF LastAt(trace, "open_session") > LastAt(trace, "close_session")
    THEN [session |-> "open"] ELSE [session |-> "closed"]

\* What an operation did: its requests in order, the client's
\* available_tools afterwards, and its return value or exception.
OpResult(trace, available_tools, outcome) ==
    [trace |-> trace, available_tools |-> available_tools, outcome |-> outcome]

\* connect_and_discover of MCPMathClient and of LLMMathClient.
connect_and_discover(available_tools, env) ==
    IF env.transport # "ok"
    THEN OpResult(<<>>, available_tools, Raised("[Errno 2] No such file or directory: 'uv'"))
    ELSE IF env.initialize # "ok"
    THEN OpResult(Leaving(ENTERED \o <<"initialize">>), available_tools,
                  Raised("Connection closed"))
    ELSE IF "raised" \in DOMAIN env.list
    THEN OpResult(Leaving(ENTERED \o <<"initialize", "list_tools">>), available_tools,
                  env.list)
    ELSE LET trace == Leaving(ENTERED \o <<"initialize", "list_tools">>)
         IN OpResult(trace, KeysOf(env.list.returned), Returned(SessionAfter(trace)))

\* Variant: the tools are listed again on every call.
Missing_always(available_tools, tool_name) == TRUE

\* tool_name not in self.available_tools
Missing(available_tools, tool_name) == ~Has(available_tools, tool_name)

\* call_tool of MCPMathClient.
call_tool(available_tools, tool_name, arguments, env) ==
    IF env.transport # "ok"
    THEN OpResult(<<>>, available_tools, Raised("[Errno 2] No such file or directory: 'uv'"))
    ELSE IF env.initialize # "ok"
    THEN OpResult(Leaving(ENTERED \o <<"initialize">>), available_tools,
                  Raised("Connection closed"))
    ELSE LET miss == Missing(available_tools, tool_name)
             listed == IF miss THEN <<"list_tools">> ELSE <<>>
             before == ENTERED \o <<"initialize">> \o listed
         IN IF miss /\ "raised" \in DOMAIN env.list
            THEN OpResult(Leaving(before), available_tools, env.list)
            ELSE LET tools == IF miss THEN KeysOf(env.list.returned) ELSE available_tools
                 IN IF ~Has(tools, tool_name)
                    THEN OpResult(Leaving(before), tools,
                                  Raised("Tool '" \o tool_name \o "' not found. Available: "
                                         \o ToString(tools)))
                    ELSE IF "raised" \in DOMAIN env.call
                    THEN OpResult(Leaving(before \o <<"call_tool">>), tools, env.call)
                    ELSE OpResult(Leaving(before \o <<"call_tool">>), tools,
                                  Returned(extract_result(env.call.returned)))

\* The calls made on the client: add(15, 25) and power(2, 8).
ClientCalls ==
    { <<"add_numbers", Dict([num1 |-> Num(15), num2 |-> Num(25)])>>,
      <<"power", Dict([base |-> Num(2), exponent |-> Num(8)])>> }

\* Operations run so far: those on the two clients (the web endpoints add
\* theirs to the client they use) and the web requests that ran none.
OpsRun ==
    Len(math_client.ops) + Len(llm_client.ops)
    + Cardinality({k \in DOMAIN chat_posts : chat_posts[k].op = 0})
    + Cardinality({k \in DOMAIN calc_posts : calc_posts[k].op = 0})

OpsLeft == OpsRun < MaxClientOps

\* The record of an operation run on a client.
Op(op, tool_name, arguments, env, before, r) ==
    [op |-> op, tool_name |-> tool_name, arguments |-> arguments, env |-> env,
     before |-> before, trace |-> r.trace, after |-> r.available_tools,
     outcome |-> r.outcome]

\* connect_and_discover runs on the MCPMathClient.
ClientConnect(env) ==
    LET r == connect_and_discover(math_client.available_tools, env)
    IN /\ OpsLeft
       /\ math_client' = [available_tools |-> r.available_tools,
                          ops |-> Append(math_client.ops,
                                         Op("connect_and_discover", "", EmptyDict, env,
                                            math_client.available_tools, r))]
       /\ UNCHANGED <<server_vars, math_posts, llm_client, chat_posts, calc_posts>>

\* call_tool runs on the MCPMathClient.
RunCallTool(tool_name, arguments, env) ==
    LET r == call_tool(math_client.available_tools, tool_name, arguments, env)
    IN /\ OpsLeft
       /\ math_client' = [available_tools |-> r.available_tools,
                          ops |-> Append(math_client.ops,
                                         Op("call_tool", tool_name, arguments, env,
                                            math_client.available_tools, r))]

\* call_tool is called on the MCPMathClient by a script (demo, interactive
\* mode, simple client).
ClientCallTool(tool_name, arguments, env) ==
    /\ RunCallTool(tool_name, arguments, env)
    /\ UNCHANGED <<server_vars, math_posts, llm_client, chat_posts, calc_posts>>

\* --------------------------------- LLM client (src/llm_client.py)
\* call_tool of LLMMathClient: no look-up in available_tools.
llm_call_tool(available_tools, tool_name, arguments, env) ==
    IF env.transport # "ok"
    THEN OpResult(<<>>, available_tools, Raised("[Errno 2] No such file or directory: 'uv'"))
    ELSE IF env.initialize # "ok"
    THEN OpResult(Leaving(ENTERED \o <<"initialize">>), available_tools,
                  Raised("Connection closed"))
    ELSE IF "raised" \in DOMAIN env.call
    THEN OpResult(Leaving(ENTERED \o <<"initialize", "call_tool">>), available_tools,
                  env.call)
    ELSE OpResult(Leaving(ENTERED \o <<"initialize", "call_tool">>), available_tools,
                  Returned(extract_result(env.call.returned)))

\* The table "schemas" of get_tools_schema: names and required parameters.
SCHEMA_NAMES ==
    <<"add_numbers", "subtract_numbers", "multiply_numbers", "divide_numbers",
      "power", "square_root", "factorial">>

schemas ==
    [n \in {SCHEMA_NAMES[i] : i \in DOMAIN SCHEMA_NAMES} |->
        [name |-> n,
         required |-> CASE n = "power" -> <<"base", "exponent">>
                        [] n \in {"square_root", "factorial"} -> <<"number">>
                        [] OTHER -> <<"num1", "num2">>]]

FunctionTool(n) == [type |-> "function", function |-> schemas[n]]

\* Variant: the whole table is offered.
get_tools_schema_whole_table(available_tools) ==
    [i \in DOMAIN SCHEMA_NAMES |-> FunctionTool(SCHEMA_NAMES[i])]

\* get_tools_schema
get_tools_schema(available_tools) ==
    LET InTable(n) == n \in DOMAIN schemas
        offered == SelectSeq(available_tools, InTable)
    IN [i \in DOMAIN offered |-> FunctionTool(offered[i])]

\* A reply of chat.completions.create: choices[0].message.
Message(content, tool_calls) == [content |-> content, tool_calls |-> tool_calls]
ToolCall(id, name, arguments) ==
    [id |-> id, function |-> [name |-> name, arguments |-> arguments]]

SYSTEM_MESSAGE == "You are an intelligent math assistant with access to mathematical tools through MCP."
NO_HELP == "I understand your request, but I'm not sure how to help with that specific calculation."

ToolMessage(id, content) == [role |-> "tool", tool_call_id |-> id, content |-> content]

\* Variant: a tool call that raises ends the loop.
AfterFailure_stop(i, n) == n + 1

\* The tool call handled after tool call i raised inside call_tool.
AfterFailure(i, n) == i + 1

\* The loop over message.tool_calls from tool call i on: the messages, the
\* call_tool operations run, and the exception of json.loads if it raised.
RECURSIVE tool_loop(_, _, _, _, _, _)
tool_loop(available_tools, tool_calls, envs, i, messages, ran) ==
    IF i > Len(tool_calls)
    THEN [messages |-> messages, ran |-> ran, raised |-> ""]
    ELSE LET tool_call == tool_calls[i]
             function_name == tool_call.function.name
         IN IF tool_call.function.arguments.kind # "json"
            THEN [messages |-> messages, ran |-> ran,
                  raised |-> "Expecting value: line 1 column 1 (char 0)"]
            ELSE LET arguments == tool_call.function.arguments.value
                     r == llm_call_tool(available_tools, function_name, arguments, envs[i])
                     op == Op("call_tool", function_name, arguments, envs[i],
                              available_tools, r)
                 IN IF "returned" \in DOMAIN r.outcome
                    THEN tool_loop(available_tools, tool_calls, envs, i + 1,
                                   Append(messages,
                                          ToolMessage(tool_call.id, PyStr(r.outcome.returned))),
                                   Append(ran, op))
                    ELSE tool_loop(available_tools, tool_calls, envs,
                                   AfterFailure(i, Len(tool_calls)),
                                   Append(messages,
                                          ToolMessage(tool_call.id,
                                                      "Error executing " \o function_name
                                                      \o ": " \o r.outcome.raised)),
                                   Append(ran, op))

\* What the model and the server do during one process_natural_language:
\* the first completion, the environment of each tool call, the final
\* completion.
Script(first, envs, final) == [first |-> first, envs |-> envs, final |-> final]

\* What process_natural_language did: its return value, the completions it
\* requested (their messages and tools) and the call_tool operations it ran.
Processed(outcome, requests, ran) ==
    [outcome |-> outcome, requests |-> requests, ran |-> ran]

ProcessingError(text) == Returned(Str("Error processing request: " \o text))

\* process_natural_language
process_natural_language(available_tools, user_input, script) ==
    LET tools_schema == get_tools_schema(available_tools)
        messages == <<[role |-> "system", content |-> SYSTEM_MESSAGE],
                      [role |-> "user", content |-> user_input]>>
        first == [messages |-> messages, tools |-> tools_schema]
    IN IF "raised" \in DOMAIN script.first
       THEN Processed(ProcessingError(script.first.raised), <<first>>, <<>>)
       ELSE LET message == script.first.returned
            IN IF message.tool_calls = <<>>
               THEN Processed(Returned(IF Truthy(message.content) THEN message.content
                                       ELSE Str(NO_HELP)),
                              <<first>>, <<>>)
               ELSE LET assistant == [role |-> "assistant", content |-> message.content,
                                      tool_calls |-> message.tool_calls]
                        loop == tool_loop(available_tools, message.tool_calls, script.envs,
                                          1, Append(messages, assistant), <<>>)
                        final == [messages |-> loop.messages]
                    IN IF loop.raised # ""
                       THEN Processed(ProcessingError(loop.raised), <<first>>, loop.ran)
                       ELSE IF "raised" \in DOMAIN script.final
                       THEN Processed(ProcessingError(script.final.raised),
                                      <<first, final>>, loop.ran)
                       ELSE Processed(Returned(script.final.returned.content),
                                      <<first, final>>, loop.ran)

ENV_OK ==
    Env("ok", "ok", Listed(MATHS_TOOLS), Returned(CallToolResult(<<TextContent("40")>>)))
ENV_DOWN ==
    Env("raise", "ok", Listed(MATHS_TOOLS), Returned(CallToolResult(<<TextContent("40")>>)))

\* The environments that differ for connect_and_discover.
ConnectEnvs == {env \in ClientEnvs : env.call = ENV_OK.call}

TC_ADD == ToolCall("call_1", "add_numbers", JsonBody(Dict([num1 |-> Num(15), num2 |-> Num(25)])))
TC_MUL == ToolCall("call_2", "multiply_numbers", JsonBody(Dict([num1 |-> Num(40), num2 |-> Num(2)])))
TC_BAD == ToolCall("call_2", "multiply_numbers", TextBody)

ANSWER == Returned(Message(Str("15 plus 25 is 40."), <<>>))

Scripts ==
    { Script(Raised("Connection error."), <<>>, ANSWER),
      Script(ANSWER, <<>>, ANSWER),
      Script(Returned(Message(None, <<>>)), <<>>, ANSWER),
      Script(Returned(Message(None, <<TC_ADD>>)), <<ENV_OK>>, ANSWER),
      Script(Returned(Message(None, <<TC_ADD, TC_MUL>>)), <<ENV_OK, ENV_OK>>, ANSWER),
      Script(Returned(Message(None, <<TC_ADD, TC_MUL>>)), <<ENV_DOWN, ENV_OK>>, ANSWER),
      Script(Returned(Message(None, <<TC_ADD, TC_BAD>>)), <<ENV_OK, ENV_OK>>, ANSWER),
      Script(Returned(Message(None, <<TC_ADD>>)), <<ENV_OK>>, Raised("Connection error.")),
      Script(Returned(Message(None, <<TC_ADD>>)), <<ENV_OK>>,
             Returned(Message(None, <<>>))) }

USER_INPUT == "What's 15 plus 25?"

\* The record of a process_natural_language run on the client.
Run(user_input, script, before, p) ==
    [op |-> "process_natural_language", user_input |-> user_input, script |-> script,
     before |-> before, after |-> before, outcome |-> p.outcome,
     requests |-> p.requests, ran |-> p.ran]

\* connect_and_discover runs on the LLMMathClient.
LlmConnect(env) ==
    LET r == connect_and_discover(llm_client.available_tools, env)
    IN /\ OpsLeft
       /\ llm_client' = [available_tools |-> r.available_tools,
                         ops |-> Append(llm_client.ops,
                                        Op("connect_and_discover", "", EmptyDict, env,
                                           llm_client.available_tools, r))]
       /\ UNCHANGED <<server_vars, math_posts, math_client, chat_posts, calc_posts>>

\* process_natural_language runs on the LLMMathClient.
RunProcess(user_input, script) ==
    LET p == process_natural_language(llm_client.available_tools, user_input, script)
    IN /\ OpsLeft
       /\ llm_client' = [llm_client EXCEPT
                            !.ops = Append(llm_client.ops,
                                           Run(user_input, script,
                                               llm_client.available_tools, p))]

\* process_natural_language is called by a script (demo, interactive mode).
LlmProcess(user_input, script) ==
    /\ RunProcess(user_input, script)
    /\ UNCHANGED <<server_vars, math_posts, math_client, chat_posts, calc_posts>>

\* ------------------------------------ POST /chat (src/llm_web.py)
RECURSIVE Strip(_)
Strip(text) ==
    IF Len(text) > 0 /\ SubSeq(text, 1, 1) = " " THEN Strip(SubSeq(text, 2, Len(text)))
    ELSE IF Len(text) > 0 /\ SubSeq(text, Len(text), Len(text)) = " "
    THEN Strip(SubSeq(text, 1, Len(text) - 1))
    ELSE text

Failure(error) == [success |-> FALSE, error |-> error]

\* chat up to the call of process_natural_language: the envelope it
\* answers with, or the message it hands on.
chat(body) ==
    IF body.kind # "json"
    THEN [answer |-> Failure("400 Bad Request: The browser (or proxy) sent a request that this server could not understand.")]
    ELSE LET data == body.value
         IN IF data.t # "dict"
            THEN [answer |-> Failure(AttributeErrorMsg(data, "get"))]
            ELSE LET message == Get(data, "message", Str(""))
                 IN IF message.t # "str"
                    THEN [answer |-> Failure(AttributeErrorMsg(message, "strip"))]
                    ELSE IF Strip(message.s) = ""
                    THEN [answer |-> Failure("Empty message")]
                    ELSE [message |-> Strip(message.s)]

ChatBodies ==
    { TextBody, JsonBody(None), JsonBody(EmptyDict),
      JsonBody(Dict([message |-> Num(5)])),
      JsonBody(Dict([message |-> Str("  ")])),
      JsonBody(Dict([message |-> Str(" " \o USER_INPUT)])) }

\* A POST /chat that is answered without the client.
ChatPostRefused(body) ==
    LET c == chat(body)
    IN /\ OpsLeft
       /\ "answer" \in DOMAIN c
       /\ chat_posts' = Append(chat_posts, [body |-> body, op |-> 0, answer |-> c.answer])
       /\ UNCHANGED <<server_vars, math_posts, math_client, llm_client, calc_posts>>

\* A POST /chat whose message is processed by the client.
ChatPost(body, script) ==
    LET c == chat(body)
    IN /\ OpsLeft
       /\ "message" \in DOMAIN c
       /\ RunProcess(c.message, script)
       /\ chat_posts' = Append(chat_posts,
                               [body |-> body, op |-> Len(llm_client'.ops),
                                answer |-> [success |-> TRUE,
                                            response |-> llm_client'.ops[Len(llm_client'.ops)]
                                                             .outcome.returned]])
       /\ UNCHANGED <<server_vars, math_posts, math_client, calc_posts>>

\* ------------------------------ POST /calculate (src/web_client.py)
\* int(v): [ok, value] or [ok = FALSE, msg = str(e)]
PyInt(v) ==
    CASE v.t = "num" -> [ok |-> TRUE, value |-> v]
      [] v.t = "str" /\ IsNumeral(v.s) -> [ok |-> TRUE, value |-> Num(NumeralValue(v.s))]
      [] v.t = "str" ->
           [ok |-> FALSE,
            msg |-> "invalid literal for int() with base 10: '" \o v.s \o "'"]
      [] OTHER ->
           [ok |-> FALSE,
            msg |-> "int() argument must be a string, a bytes-like object or a real number, not '"
                    \o TypeName(v) \o "'"]

\* The operations of calculate: the number of operands, the tool the client
\* method calls and the names of its arguments.
OPERATIONS ==
    [add      |-> [arity |-> 2, tool |-> "add_numbers",      keys |-> <<"num1", "num2">>],
     subtract |-> [arity |-> 2, tool |-> "subtract_numbers", keys |-> <<"num1", "num2">>],
     multiply |-> [arity |-> 2, tool |-> "multiply_numbers", keys |-> <<"num1", "num2">>],
     divide   |-> [arity |-> 2, tool |-> "divide_numbers",   keys |-> <<"num1", "num2">>],
     power    |-> [arity |-> 2, tool |-> "power",            keys |-> <<"base", "exponent">>],
     sqrt     |-> [arity |-> 1, tool |-> "square_root",      keys |-> <<"number">>],
     factorial |-> [arity |-> 1, tool |-> "factorial",       keys |-> <<"number">>]]

INVALID_OPERATION == "Invalid operation or wrong number of arguments"

\* len(numbers) == arity
RightArity(numbers, arity) == Len(numbers.l) = arity

\* calculate up to the call of the client: the envelope it answers with, or
\* the tool and arguments of the client's call_tool.
calculate(body) ==
    IF body.kind # "json"
    THEN [answer |-> Failure("400 Bad Request: The browser (or proxy) sent a request that this server could not understand.")]
    ELSE LET data == body.value
         IN IF data.t # "dict"
            THEN [answer |-> Failure(AttributeErrorMsg(data, "get"))]
            ELSE LET operation == Get(data, "operation", None)
                     numbers == Get(data, "numbers", List(<<>>))
                 IN IF operation.t # "str" \/ operation.s \notin DOMAIN OPERATIONS
                    THEN [answer |-> Failure(INVALID_OPERATION)]
                    ELSE IF numbers.t # "list"
                    THEN [answer |-> Failure("object of type '" \o TypeName(numbers)
                                             \o "' has no len()")]
                    ELSE LET o == OPERATIONS[operation.s]
                         IN IF ~RightArity(numbers, o.arity)
                            THEN [answer |-> Failure(INVALID_OPERATION)]
                            ELSE IF operation.s = "factorial" /\ ~PyInt(numbers.l[1]).ok
                            THEN [answer |-> Failure(PyInt(numbers.l[1]).msg)]
                            ELSE [tool |-> o.tool,
                                  arguments |->
                                      Dict([k \in {o.keys[i] : i \in 1..o.arity} |->
                                               LET i == CHOOSE j \in 1..o.arity : o.keys[j] = k
                                               IN IF operation.s = "factorial"
                                                  THEN PyInt(numbers.l[i]).value
                                                  ELSE numbers.l[i]])]

\* Variant: an exception of the client is answered as a success.
calculated_always_success(outcome) ==
    [success |-> TRUE,
     result |-> IF "returned" \in DOMAIN outcome THEN outcome.returned
                ELSE Str(outcome.raised)]

\* The envelope calculate answers with after the client's call_tool (its
\* "expression" text is left out).
calculated(outcome) ==
    IF "returned" \in DOMAIN outcome
    THEN [success |-> TRUE, result |-> outcome.returned]
    ELSE Failure(outcome.raised)

Calculation(operation, numbers) ==
    JsonBody(Dict([operation |-> Str(operation), numbers |-> numbers]))

CalcBodies ==
    { TextBody, JsonBody(None),
      JsonBody(Dict([operation |-> Str("add")])),
      Calculation("add", Num(5)),
      Calculation("add", List(<<Num(15)>>)),
      Calculation("modulo", List(<<Num(15), Num(25)>>)),
      Calculation("factorial", List(<<Str("x")>>)),
      Calculation("add", List(<<Num(15), Num(25)>>)),
      Calculation("power", List(<<Num(2), Num(8)>>)) }

CalcEnvs == {env \in ClientEnvs : env.list = ENV_OK.list /\ env.initialize = "ok"}

\* A POST /calculate that is answered without the client.
CalcPostRefused(body) ==
    LET c == calculate(body)
    IN /\ OpsLeft
       /\ "answer" \in DOMAIN c
       /\ calc_posts' = Append(calc_posts, [body |-> body, op |-> 0, answer |-> c.answer])
       /\ UNCHANGED <<server_vars, math_posts, math_client, llm_client, chat_posts>>

\* A POST /calculate whose operation is run by the client.
CalcPost(body, env) ==
    LET c == calculate(body)
    IN /\ OpsLeft
       /\ "tool" \in DOMAIN c
       /\ RunCallTool(c.tool, c.arguments, env)
       /\ calc_posts' = Append(calc_posts,
                               [body |-> body, op |-> Len(math_client'.ops),
                                answer |-> calculated(math_client'.ops[Len(math_client'.ops)]
                                                          .outcome)])
       /\ UNCHANGED <<server_vars, math_posts, llm_client, chat_posts>>

\* ---------------------------------------------- the clients together
ClientNext ==
    \/ \E env \in ConnectEnvs : ClientConnect(env)
    \/ \E c \in ClientCalls, env \in ClientEnvs : ClientCallTool(c[1], c[2], env)
    \/ \E env \in ConnectEnvs : LlmConnect(env)
    \/ \E script \in Scripts : LlmProcess(USER_INPUT, script)
    \/ \E body \in ChatBodies : ChatPostRefused(body)
    \/ \E body \in ChatBodies, script \in Scripts : ChatPost(body, script)
    \/ \E body \in CalcBodies : CalcPostRefused(body)
    \/ \E body \in CalcBodies, env \in CalcEnvs : CalcPost(body, env)

ClientSpec == Init /\ [][ClientNext]_vars

\* ------------------------------------------------------------------ claims
Done(i) == calls[i].pc = "done"
CredentialOf(i) == Get(calls[i].arguments, "auth_token", None)
AuthFailedResponse == [success |-> FALSE, error |-> AUTH_FAILED_MSG]

\* What a working auth service answers to the token of call i.
OwnAnswer(i) == ServiceAnswer("Bearer " \o PyStr(CredentialOf(i)))

\* The token of call i is one the auth service accepts.
ValidCredential(i) == Truthy(CredentialOf(i)) /\ OwnAnswer(i).status = 200

\* The validator returned a positive answer to call i.
Authenticated(i) ==
    /\ calls[i].http.kind = "response"
    /\ calls[i].http.status = 200
    /\ calls[i].http = OwnAnswer(i)

\* The USER_ACTIVITY entries written by call i.
EntriesOf(i) == {k \in DOMAIN audit_log : audit_log[k].call = i}

IsEnvelope(r) ==
    \/ DOMAIN r = {"success", "error"} /\ r.success = FALSE
    \/ "success" \in DOMAIN r /\ "result" \in DOMAIN r /\ r.success = TRUE

TypeOK ==
    /\ Len(calls) <= MaxCalls
    /\ Len(audit_log) <= Len(calls)
    /\ \A i \in DOMAIN calls : calls[i].pc \in {"awaiting", "done"}

\* C1: every tools/call that returned has produced exactly one result and
\* exactly one audit record, also when authentication failed; so the audit
\* log holds as many records as invocations have returned.
C1_OneAuditRecordPerCall ==
    /\ \A i \in DOMAIN calls :
           Done(i) => IsEnvelope(calls[i].response) /\ Cardinality(EntriesOf(i)) = 1
    /\ Len(audit_log) = Cardinality({i \in DOMAIN calls : Done(i)})

\* C2: for any interleaving of concurrent requests, the performed_by of a
\* success result and the username and user_id of that invocation's audit
\* record are the ones the auth service returned for that request's token.
C2_IdentityIsOwn ==
    \A i \in DOMAIN calls :
        (Done(i) /\ calls[i].response.success) =>
            /\ Authenticated(i)
            /\ calls[i].response.performed_by =
                   Get(calls[i].http.body.value, "username", None)
            /\ \A k \in EntriesOf(i) :
                   /\ audit_log[k].username = Get(calls[i].http.body.value, "username", None)
                   /\ audit_log[k].user_id = Get(calls[i].http.body.value, "user_id", None)

\* Two requests of different users overlapped: the one that started second
\* returned first, and both succeeded.
C2_Witness ==
    /\ Len(calls) = 2 /\ Done(1) /\ Done(2)
    /\ calls[1].response.success /\ calls[2].response.success
    /\ calls[1].response.performed_by # calls[2].response.performed_by
    /\ Len(audit_log) = 2 /\ audit_log[1].call = 2 /\ audit_log[2].call = 1

\* C3: the audit record of an invocation whose authentication failed has the
\* subject "anonymous", never the username of an earlier caller.
C3_FailedAuthIsAnonymous ==
    \A k \in DOMAIN audit_log :
        calls[audit_log[k].call].response = AuthFailedResponse =>
            audit_log[k].username = Str("anonymous")

\* C4: an invocation with a missing or invalid credential returns the
\* authentication failure whatever the tool name, so two such invocations
\* that differ in the tool name return identical responses.
C4_AuthFailureHidesToolName ==
    /\ \A i \in DOMAIN calls :
           (Done(i) /\ ~ValidCredential(i)) =>
               calls[i].response = [success |-> FALSE, error |-> AUTH_FAILED_MSG]
    /\ \A i, j \in DOMAIN calls :
           (Done(i) /\ Done(j) /\ ~ValidCredential(i) /\ ~ValidCredential(j)) =>
               calls[i].response = calls[j].response

\* Two invocations without a valid credential, one of the registered tool
\* and one of an unknown tool.
C4_Witness ==
    /\ Len(calls) = 2 /\ Done(1) /\ Done(2)
    /\ ~ValidCredential(1) /\ ~ValidCredential(2)
    /\ calls[1].name = "add_numbers" /\ calls[2].name = "multiply"
    /\ CredentialOf(1) = None /\ CredentialOf(2) = Str("expired")
    /\ calls[1].response = calls[2].response

\* C5: in every invocation, at every moment, the tool name has been compared
\* and the handler has run only after the validator returned a positive
\* answer for that invocation.
C5_AuthBeforeResolution ==
    \A i \in DOMAIN calls :
        \A k \in DOMAIN calls[i].trace :
            calls[i].trace[k] \in {"resolve", "handler"} =>
                /\ Authenticated(i)
                /\ \E j \in 1..(k - 1) : calls[i].trace[j] = "auth_ok"

\* An unknown tool called with a rejected token returned without the name
\* having been compared, and an unknown tool called with an accepted token
\* had it compared after the authentication.
C5_Witness ==
    /\ Len(calls) = 2 /\ Done(1) /\ Done(2)
    /\ calls[1].name = "multiply" /\ calls[2].name = "multiply"
    /\ calls[1].http = OwnAnswer(1) /\ calls[1].http.status = 401
    /\ calls[1].trace = <<"validate", "auth_failed", "log", "return">>
    /\ Authenticated(2)
    /\ calls[2].trace = <<"validate", "auth_ok", "resolve", "log", "return">>

\* The POST of call i ended without a 200 answer: transport error, timeout
\* of a service that never answers, or another status.
RemoteCallFailed(i) ==
    \/ calls[i].http.kind = "raise"
    \/ calls[i].http.kind = "response" /\ calls[i].http.status # 200

\* C6: every invocation waiting for the auth service eventually returns, and
\* when the service timed out, refused the connection or answered with a
\* status other than 200 the response is the authentication failure, a
\* normal return of call_tool.
C6_ReturnsDespiteAuthServiceFailure ==
    /\ [](\A i \in DOMAIN calls :
              (Done(i) /\ RemoteCallFailed(i)) =>
                  calls[i].response = [success |-> FALSE, error |-> AUTH_FAILED_MSG])
    /\ \A i \in 1..MaxCalls :
           (i \in DOMAIN calls /\ calls[i].pc = "awaiting") ~> (i \in DOMAIN calls /\ Done(i))

\* A call with an accepted token whose POST timed out and one whose POST got
\* status 500 both returned.
C6_Witness ==
    /\ Len(calls) = 2 /\ Done(1) /\ Done(2)
    /\ ValidCredential(1) /\ calls[1].http = Raise("ReadTimeout")
    /\ ValidCredential(2) /\ calls[2].http = Response(500, TextBody)
    /\ calls[1].response = AuthFailedResponse /\ calls[2].response = AuthFailedResponse

\* Call i returns in this step.
Returns(i) ==
    /\ i \in DOMAIN calls' /\ calls'[i].pc = "done"
    /\ (i \in DOMAIN calls => calls[i].pc # "done")

\* C7: a missing token, a rejected token and a failed remote verification
\* give the same response and leave the same stored current user (none).
C7_SameResponseAndState ==
    [][\A i \in 1..MaxCalls :
           (Returns(i) /\ (~Truthy(Get(calls'[i].arguments, "auth_token", None))
                           \/ calls'[i].http.kind = "raise"
                           \/ calls'[i].http.status # 200)) =>
               /\ calls'[i].response = AuthFailedResponse
               /\ current_user' = None]_vars

NumericOperands(i) ==
    /\ Get(calls[i].arguments, "a", None).t = "num"
    /\ Get(calls[i].arguments, "b", None).t = "num"

\* The operands of call i are ones Python's + accepts.
Addable(i) ==
    \/ NumericOperands(i)
    \/ /\ Get(calls[i].arguments, "a", None).t = "str"
       /\ Get(calls[i].arguments, "b", None).t = "str"

\* C8: with a valid credential accepted by the validator, add_numbers returns
\* Success iff the addition succeeds and a handler-error Failure otherwise;
\* for numeric a and b the result is a + b and the operands are [a, b].
C8_AddNumbers ==
    \A i \in DOMAIN calls :
        (Done(i) /\ Authenticated(i) /\ calls[i].name = "add_numbers") =>
            LET a == Get(calls[i].arguments, "a", None)
                b == Get(calls[i].arguments, "b", None)
                r == calls[i].response
            IN /\ IsEnvelope(r)
               /\ r.success <=> Addable(i)
               /\ ~r.success => \E n \in 1..Len(r.error) :
                                    SubSeq(r.error, 1, n) = "Error in add_numbers: "
               /\ NumericOperands(i) =>
                      /\ r.result = Num(a.n + b.n)
                      /\ r.operands = <<a, b>>

\* add_numbers with a = 10 and b = 5 returned 15.
C8_Witness ==
    \E i \in DOMAIN calls :
        /\ Done(i) /\ Authenticated(i) /\ calls[i].name = "add_numbers"
        /\ Get(calls[i].arguments, "a", None) = Num(10)
        /\ Get(calls[i].arguments, "b", None) = Num(5)
        /\ calls[i].response.success
        /\ calls[i].response.result = Num(15)
        /\ calls[i].response.operands = <<Num(10), Num(5)>>

\* C9: an unregistered tool name with an authenticated credential returns
\* the unknown-tool failure envelope naming the tool, and one audit record
\* with the identity the validator resolved; no exception leaves call_tool.
C9_UnknownTool ==
    \A i \in DOMAIN calls :
        (Done(i) /\ Authenticated(i) /\ calls[i].name # "add_numbers") =>
            /\ calls[i].response =
                   [success |-> FALSE, error |-> "Unknown tool: " \o calls[i].name]
            /\ Cardinality(EntriesOf(i)) = 1
            /\ \A k \in EntriesOf(i) :
                   /\ audit_log[k].username = Get(calls[i].http.body.value, "username", None)
                   /\ audit_log[k].tool_name = calls[i].name
                   /\ audit_log[k].result = [error |-> "Unknown tool: " \o calls[i].name]

\* multiply was called with bob's token.
C9_Witness ==
    \E i \in DOMAIN calls :
        /\ Done(i) /\ Authenticated(i) /\ calls[i].name = "multiply"
        /\ calls[i].response.error = "Unknown tool: multiply"
        /\ \E k \in EntriesOf(i) : audit_log[k].username = Str("bob")

\* C10: an exception raised while handling add_numbers is returned as a
\* failure envelope: every invocation that has returned holds an envelope,
\* never an exception, and operands that cannot be added give success false.
C10_HandlerFaultsAreCaught ==
    \A i \in DOMAIN calls :
        Done(i) =>
            /\ IsEnvelope(calls[i].response)
            /\ (Authenticated(i) /\ calls[i].name = "add_numbers" /\ ~Addable(i)) =>
                   calls[i].response.success = FALSE

\* add_numbers failed on a missing operand, and an invocation that started
\* afterwards was served.
C10_Witness ==
    /\ Len(calls) = 2 /\ Done(1) /\ Done(2)
    /\ Authenticated(1) /\ calls[1].name = "add_numbers"
    /\ "a" \notin DOMAIN calls[1].arguments.d
    /\ calls[1].response.success = FALSE
    /\ Len(audit_log) = 2 /\ audit_log[1].call = 1 /\ audit_log[2].call = 2
    /\ calls[2].response.success

\* A required field of the add_numbers schema is absent from call i.
MissingRequiredOperand(i) ==
    \E k \in DOMAIN ADD_NUMBERS_TOOL.inputSchema.required :
        /\ ADD_NUMBERS_TOOL.inputSchema.required[k] \in {"a", "b"}
        /\ ADD_NUMBERS_TOOL.inputSchema.required[k] \notin DOMAIN calls[i].arguments.d

StartsWith(s, prefix) ==
    /\ Len(s) >= Len(prefix)
    /\ SubSeq(s, 1, Len(prefix)) = prefix

\* C11: add_numbers called with a valid credential and without a required
\* operand returns a failure produced before the handler runs, not the
\* handler's own fault.
C11_MissingOperandRejectedBeforeHandler ==
    \A i \in DOMAIN calls :
        (Done(i) /\ Authenticated(i) /\ calls[i].name = "add_numbers"
                 /\ MissingRequiredOperand(i)) =>
            /\ \A k \in DOMAIN calls[i].trace : calls[i].trace[k] # "handler"
            /\ calls[i].response.success = FALSE
            /\ ~StartsWith(calls[i].response.error, "Error in add_numbers: ")

\* C14: the payload of every tools/call that returned has a boolean success,
\* a result exactly when success is true and an error string exactly when
\* success is false.
C14_UniformEnvelope ==
    \A i \in DOMAIN calls :
        Done(i) =>
            LET r == calls[i].response
            IN /\ "success" \in DOMAIN r
               /\ r.success \in BOOLEAN
               /\ ("result" \in DOMAIN r) <=> r.success
               /\ ("error" \in DOMAIN r) <=> ~r.success
               /\ ~r.success => r.error \in STRING

\* A success and a handler error have both been returned.
C14_Witness ==
    /\ Len(calls) = 2 /\ Done(1) /\ Done(2)
    /\ calls[1].response.success /\ "result" \in DOMAIN calls[1].response
    /\ Authenticated(2) /\ calls[2].name = "add_numbers"
    /\ ~calls[2].response.success /\ "error" \in DOMAIN calls[2].response

\* C15: no audit record holds the complete token of the invocation that
\* wrote it.
C15_TokenNotInAuditLog ==
    \A k \in DOMAIN audit_log :
        Truthy(CredentialOf(audit_log[k].call)) =>
            \A key \in DOMAIN audit_log[k].arguments.d :
                audit_log[k].arguments.d[key] # CredentialOf(audit_log[k].call)

\* The outcome of call i as its audit record states it.
AuditedOutcome(i) ==
    IF calls[i].response.success THEN calls[i].response
    ELSE [error |-> calls[i].response.error]

\* Position of the first occurrence of e in trace t, 0 if none.
FirstAt(t, e) ==
    IF \E k \in DOMAIN t : t[k] = e
    THEN CHOOSE k \in DOMAIN t : t[k] = e /\ \A j \in 1..(k - 1) : t[j] # e
    ELSE 0

\* C16: every audit record carries the tool name, the arguments and the
\* outcome returned to the caller of the invocation that wrote it, and that
\* invocation called log_user_activity before it returned.
C16_AuditRecordMatchesCall ==
    \A k \in DOMAIN audit_log :
        LET i == audit_log[k].call
        IN /\ Done(i)
           /\ audit_log[k].tool_name = calls[i].name
           /\ audit_log[k].arguments = calls[i].arguments
           /\ audit_log[k].result = AuditedOutcome(i)
           /\ FirstAt(calls[i].trace, "log") > 0
           /\ FirstAt(calls[i].trace, "log") < FirstAt(calls[i].trace, "return")

\* A success and, after it, an authentication failure have been audited.
C16_Witness ==
    /\ Len(audit_log) = 2
    /\ audit_log[1].call = 1 /\ "success" \in DOMAIN audit_log[1].result
    /\ audit_log[1].result = calls[1].response
    /\ audit_log[2].call = 2 /\ audit_log[2].tool_name = "multiply"
    /\ audit_log[2].result = [error |-> AUTH_FAILED_MSG]

\* ------------------------------------------------ claims on POST /mcp
PostDone(p) == posts[p].pc = "done"

\* The body of post p is a JSON object.
WellFormed(p) ==
    /\ posts[p].request.body.kind = "json"
    /\ posts[p].request.body.value.t = "dict"

RequestData(p) == posts[p].request.body.value
MethodOf(p) == Get(RequestData(p), "method", None)
IdOf(p) == Get(RequestData(p), "id", None)
ParamsOf(p) == Get(RequestData(p), "params", EmptyDict)

\* The value on which the processing of the tools/call of post p raises:
\* params or arguments that are no dict.
Offending(p) ==
    IF ParamsOf(p).t # "dict" THEN ParamsOf(p)
    ELSE Get(ParamsOf(p), "arguments", EmptyDict)

ProcessingRaises(p) ==
    /\ WellFormed(p)
    /\ MethodOf(p) = Str("tools/call")
    /\ Offending(p).t # "dict"

Contains(s, sub) ==
    \E i \in 1..(Len(s) - Len(sub) + 1) : SubSeq(s, i, i + Len(sub) - 1) = sub

\* C12: every body posted to /mcp, also one that is not JSON or not a JSON
\* object, is answered with exactly one result or error line, and no
\* exception leaves the response generator.
C12_OneLinePerPost ==
    \A p \in DOMAIN posts :
        PostDone(p) =>
            /\ posts[p].raised = ""
            /\ Len(posts[p].lines) = 1
            /\ \/ "result" \in DOMAIN posts[p].lines[1]
               \/ "error" \in DOMAIN posts[p].lines[1]

\* The processing of post p raises inside the try block: json.loads rejects
\* the body, or .get is called on a value that is no dict.
Raising(p) == ~WellFormed(p) \/ ProcessingRaises(p)

\* C13: a JSON object whose method is neither tools/list nor tools/call is
\* answered with error -32601 and its id, and neither call_tool nor the
\* validator runs for it; a request whose processing raises is answered
\* with one error line of code -32603 that carries the request's id.
C13_ErrorCodes ==
    /\ \A p \in DOMAIN posts :
           (PostDone(p) /\ WellFormed(p)
                        /\ MethodOf(p) \notin {Str("tools/list"), Str("tools/call")}) =>
               /\ posts[p].raised = ""
               /\ posts[p].lines =
                      <<[jsonrpc |-> "2.0", id |-> IdOf(p),
                         error |-> [code |-> 0 - 32601, message |-> "Method not found"]]>>
               /\ posts[p].call = 0
    /\ Len(calls) = Cardinality({p \in DOMAIN posts : posts[p].call # 0})
    /\ \A p \in DOMAIN posts :
           posts[p].call # 0 => WellFormed(p) /\ MethodOf(p) = Str("tools/call")
    /\ \A p \in DOMAIN posts :
           (PostDone(p) /\ Raising(p)) =>
               /\ posts[p].raised = ""
               /\ Len(posts[p].lines) = 1
               /\ "error" \in DOMAIN posts[p].lines[1]
               /\ posts[p].lines[1].error.code = 0 - 32603
               /\ WellFormed(p) => posts[p].lines[1].id = IdOf(p)

\* C17: the error text sent to the client for a handler error or for an
\* internal error on POST /mcp does not contain the text of the exception
\* that caused it.
C17_ErrorsAreSanitized ==
    /\ \A i \in DOMAIN calls :
           (Done(i) /\ Authenticated(i) /\ calls[i].name = "add_numbers" /\ ~Addable(i)) =>
               ~Contains(calls[i].response.error,
                         PyAdd(Get(calls[i].arguments, "a", None),
                               Get(calls[i].arguments, "b", None)).msg)
    /\ \A p \in DOMAIN posts :
           (PostDone(p) /\ ProcessingRaises(p) /\ Len(posts[p].lines) = 1) =>
               ~Contains(posts[p].lines[1].error.message,
                         AttributeErrorMsg(Offending(p), "get"))

\* Post p is a tools/call that carries a token the auth service accepts in
\* its Authorization header and none in its arguments.
TokenOnlyInHeader(p) ==
    /\ WellFormed(p) /\ MethodOf(p) = Str("tools/call") /\ ~ProcessingRaises(p)
    /\ "auth_token" \notin DOMAIN Get(ParamsOf(p), "arguments", EmptyDict).d
    /\ "Authorization" \in DOMAIN posts[p].request.headers
    /\ ServiceAnswer(posts[p].request.headers["Authorization"]).status = 200

\* C18: a tools/call with a valid token only in the Authorization header is
\* authenticated like one with the token in auth_token: the token is given
\* to the validator, and the call is not refused for want of a token.
C18_HeaderTokenIsValidated ==
    \A p \in DOMAIN posts :
        (PostDone(p) /\ TokenOnlyInHeader(p)) =>
            /\ posts[p].call # 0
            /\ FirstAt(calls[posts[p].call].trace, "validate") > 0

ListsTools(p) == PostDone(p) /\ WellFormed(p) /\ MethodOf(p) = Str("tools/list")

NamesOf(tools) == [k \in DOMAIN tools |-> tools[k].name]

\* C19: every tools/list of the gateway returns the same sequence of
\* descriptors, and so does every list_tools of the stdio server, whatever
\* was called in between.
C19_DiscoveryIsStable ==
    /\ \A p, q \in DOMAIN posts :
           (ListsTools(p) /\ ListsTools(q)) =>
               /\ Len(posts[p].lines) = 1
               /\ posts[p].lines[1].result = posts[q].lines[1].result
               /\ NamesOf(posts[p].lines[1].result.tools) = <<"add_numbers">>
               /\ posts[p].lines[1].result.tools[1].inputSchema.required
                      = <<"auth_token", "a", "b">>
    /\ \A k, l \in DOMAIN iq_calls :
           (iq_calls[k].kind = "list" /\ iq_calls[l].kind = "list") =>
               /\ iq_calls[k].result = iq_calls[l].result
               /\ NamesOf(iq_calls[k].result) =
                      <<"get_energy_consumption_or_cost", "get_iqnext_cloud_version">>

\* The tools were listed, add_numbers was called with success, and the tools
\* were listed again.
C19_Witness ==
    /\ Len(posts) = 3 /\ ListsTools(1) /\ ListsTools(3)
    /\ PostDone(2) /\ posts[2].call = 1 /\ Done(1) /\ calls[1].response.success
    /\ posts[1].lines[1].result = posts[3].lines[1].result

\* C20: call_tool of the stdio server returns a list of text content for
\* every name and arguments, also when the version API fails or answers
\* with something malformed, and "Unknown tool: <name>" for an unknown name.
C20_StdioCallToolNeverRaises ==
    \A k \in DOMAIN iq_calls :
        iq_calls[k].kind = "call" =>
            /\ "returned" \in DOMAIN iq_calls[k].result
            /\ \A j \in DOMAIN iq_calls[k].result.returned :
                   iq_calls[k].result.returned[j].type = "text"
            /\ iq_calls[k].name \notin {"get_iqnext_cloud_version",
                                        "get_energy_consumption_or_cost"} =>
                   iq_calls[k].result.returned =
                       <<[type |-> "text", text |-> "Unknown tool: " \o iq_calls[k].name]>>

\* --------------------------------------------- claims on the math server
\* execute_function was called for post k with a function name and a
\* mapping of numbers.
ExecutedWithNumbers(k) ==
    /\ math_posts[k].handled.executed # NotExecuted
    /\ LET data == math_posts[k].body.value
       IN /\ "function" \in DOMAIN data.d /\ "args" \in DOMAIN data.d
          /\ data.d.args.t = "dict"
          /\ \A key \in DOMAIN data.d.args.d : data.d.args.d[key].t = "num"

FunctionOf(k) == math_posts[k].body.value.d.function.s

\* The operand of post k under key, or default when it is missing.
Operand(k, key, default) ==
    LET args == math_posts[k].body.value.d.args.d
    IN IF key \in DOMAIN args THEN args[key].n ELSE default

\* C27: do_POST sends exactly one response for every POST request, 200 when
\* the call was processed and 500 when processing raised, whatever the path
\* and also without a Content-Length header.
C27_OneResponsePerPost ==
    \A k \in DOMAIN math_posts :
        LET h == math_posts[k].handled
        IN /\ h.raised = ""
           /\ Len(h.responses) = 1
           /\ h.responses[1].status \in {200, 500}

IsRun(o) == o.op = "process_natural_language"

SessionOps ==
    {math_client.ops[k] : k \in DOMAIN math_client.ops}
    \cup {llm_client.ops[k] : k \in {j \in DOMAIN llm_client.ops : ~IsRun(llm_client.ops[j])}}
    \cup UNION {{llm_client.ops[k].ran[i] : i \in DOMAIN llm_client.ops[k].ran} :
                   k \in {j \in DOMAIN llm_client.ops : IsRun(llm_client.ops[j])}}

Count(t, e) == Cardinality({i \in DOMAIN t : t[i] = e})

\* In trace t every request is sent on an open session over an open
\* transport, after initialize, and what was opened is closed at the end.
OpenInitializeRequestClose(t) ==
    /\ Count(t, "open_transport") = Count(t, "close_transport")
    /\ Count(t, "open_session") = Count(t, "close_session")
    /\ \A i \in DOMAIN t :
           /\ t[i] = "open_transport" => \E j \in DOMAIN t : j > i /\ t[j] = "close_transport"
           /\ t[i] = "open_session" =>
                  /\ \E j \in DOMAIN t : j < i /\ t[j] = "open_transport"
                  /\ \E j \in DOMAIN t : j > i /\ t[j] = "close_session"
           /\ t[i] \in {"initialize", "list_tools", "call_tool"} =>
                  /\ \E j \in DOMAIN t : j < i /\ t[j] = "open_session"
                  /\ \A j \in DOMAIN t : t[j] \in {"close_session", "close_transport"} => j > i
           /\ t[i] \in {"list_tools", "call_tool"} =>
                  \E j \in DOMAIN t : j < i /\ t[j] = "initialize"

\* C21: every operation of the two clients opens the transport, initializes,
\* sends its requests and closes: initialize comes before any list_tools or
\* call_tool, session and transport are closed when the operation returns
\* or raises, and the session connect_and_discover returns is closed.
C21_OpenInitializeRequestClose ==
    \A o \in SessionOps :
        /\ OpenInitializeRequestClose(o.trace)
        /\ (o.op = "connect_and_discover" /\ "returned" \in DOMAIN o.outcome) =>
               /\ o.outcome.returned = [session |-> "closed"]
               /\ Count(o.trace, "list_tools") = 1
        /\ (o.op = "call_tool" /\ "returned" \in DOMAIN o.outcome) =>
               Count(o.trace, "call_tool") = 1

\* On each client an operation returned and one raised after initialize.
C21_Witness ==
    /\ \E k \in DOMAIN math_client.ops :
           /\ math_client.ops[k].op = "call_tool"
           /\ "raised" \in DOMAIN math_client.ops[k].outcome
           /\ Count(math_client.ops[k].trace, "call_tool") = 1
           /\ Count(math_client.ops[k].trace, "close_session") = 1
    /\ \E k \in DOMAIN llm_client.ops :
           /\ llm_client.ops[k].op = "connect_and_discover"
           /\ llm_client.ops[k].outcome = Returned([session |-> "closed"])

\* The call_tool operations of the MCPMathClient.
IsCall(k) == math_client.ops[k].op = "call_tool"

\* The session of operation k was initialized.
Initialized(k) ==
    math_client.ops[k].env.transport = "ok" /\ math_client.ops[k].env.initialize = "ok"

InCache(cache, name) == \E i \in DOMAIN cache : cache[i] = name

\* C22: call_tool of MCPMathClient sends a call_tool request only for a name
\* in available_tools; on a miss it lists the tools once and replaces the
\* cache, and raises ValueError without a call_tool request when the name is
\* still missing; on a hit it does not list; and the cache changes only on a
\* miss or in connect_and_discover.
C22_CallOnlyCachedTools ==
    /\ \A k \in DOMAIN math_client.ops :
           LET o == math_client.ops[k]
           IN /\ o.before = IF k = 1 THEN <<>> ELSE math_client.ops[k - 1].after
              /\ k = Len(math_client.ops) => math_client.available_tools = o.after
              /\ o.after # o.before =>
                     \/ o.op = "connect_and_discover"
                     \/ o.op = "call_tool" /\ ~InCache(o.before, o.tool_name)
    /\ \A k \in DOMAIN math_client.ops :
           IsCall(k) =>
               LET o == math_client.ops[k]
                   hit == InCache(o.before, o.tool_name)
               IN /\ Count(o.trace, "call_tool") <= 1
                  /\ Count(o.trace, "call_tool") = 1 => InCache(o.after, o.tool_name)
                  /\ hit => Count(o.trace, "list_tools") = 0 /\ o.after = o.before
                  /\ (~hit /\ Initialized(k)) =>
                         /\ Count(o.trace, "list_tools") = 1
                         /\ "returned" \in DOMAIN o.env.list =>
                                /\ \A n \in {o.env.list.returned[i] :
                                                 i \in DOMAIN o.env.list.returned} :
                                       InCache(o.after, n)
                                /\ \A i \in DOMAIN o.after :
                                       \E j \in DOMAIN o.env.list.returned :
                                           o.env.list.returned[j] = o.after[i]
                                /\ ~InCache(o.after, o.tool_name) =>
                                       /\ Count(o.trace, "call_tool") = 0
                                       /\ "raised" \in DOMAIN o.outcome
                                       /\ StartsWith(o.outcome.raised,
                                                     "Tool '" \o o.tool_name \o "' not found")
                                /\ InCache(o.after, o.tool_name) =>
                                       Count(o.trace, "call_tool") = 1

\* A miss that ended in ValueError, then a hit that sent the call.
C22_Witness ==
    /\ Len(math_client.ops) = 2 /\ IsCall(1) /\ IsCall(2)
    /\ math_client.ops[1].tool_name = "power"
    /\ math_client.ops[1].before = <<>> /\ math_client.ops[1].after = MATHS_TOOLS
    /\ "raised" \in DOMAIN math_client.ops[1].outcome
    /\ Count(math_client.ops[1].trace, "call_tool") = 0
    /\ math_client.ops[2].tool_name = "add_numbers"
    /\ Count(math_client.ops[2].trace, "list_tools") = 0
    /\ math_client.ops[2].outcome = Returned(Num(40))

\* The process_natural_language runs whose first reply holds tool calls.
Runs == {k \in DOMAIN llm_client.ops : IsRun(llm_client.ops[k])}

HasToolCalls(k) ==
    /\ "returned" \in DOMAIN llm_client.ops[k].script.first
    /\ llm_client.ops[k].script.first.returned.tool_calls # <<>>

ToolCallsOf(k) == llm_client.ops[k].script.first.returned.tool_calls

IsToolMessage(m) == m.role = "tool"

\* The final completion was requested in run k.
FinalRequested(k) == Len(llm_client.ops[k].requests) = 2

\* The tool-role messages sent with the final completion of run k.
ToolMessagesOf(k) == SelectSeq(llm_client.ops[k].requests[2].messages, IsToolMessage)

C24_AlwaysAString ==
    /\ \A k \in Runs :
           /\ "returned" \in DOMAIN llm_client.ops[k].outcome
           /\ llm_client.ops[k].outcome.returned.t = "str"
    /\ \A k \in DOMAIN chat_posts : chat_posts[k].answer.success \in BOOLEAN

\* The tools listed by the last connect_and_discover that returned before
\* operation k of the LLM client.
LastDiscovered(k) ==
    LET found == {j \in 1..(k - 1) :
                     /\ llm_client.ops[j].op = "connect_and_discover"
                     /\ "returned" \in DOMAIN llm_client.ops[j].outcome}
    IN IF found = {} THEN <<>>
       ELSE llm_client.ops[CHOOSE j \in found : \A i \in found : i <= j].env.list.returned

InSchemaTable(n) ==
    n \in {"add_numbers", "subtract_numbers", "multiply_numbers", "divide_numbers",
           "power", "square_root", "factorial"}

\* C25: the tools offered to the model are the discovered tools that are in
\* the schema table, in discovery order: none before a successful
\* connect_and_discover, and none the server did not list.
C25_OfferedTools ==
    \A k \in Runs :
        LET tools == llm_client.ops[k].requests[1].tools
        IN /\ [i \in DOMAIN tools |-> tools[i].function.name]
                  = SelectSeq(LastDiscovered(k), InSchemaTable)
           /\ \A i \in DOMAIN tools : tools[i].type = "function"

\* Tools were discovered in another order than the table's, with one that
\* is not in the table, and then offered.
C25_Witness ==
    \E k \in Runs :
        /\ LastDiscovered(k) = OTHER_TOOLS
        /\ Len(llm_client.ops[k].requests[1].tools) = 2
        /\ llm_client.ops[k].requests[1].tools[1].function.name = "multiply_numbers"
        /\ llm_client.ops[k].requests[1].tools[2].function.name = "add_numbers"

\* The operation and operands of POST /calculate k, when its body is a JSON
\* object with a list of numbers.
CalcData(k) == calc_posts[k].body.value

WellFormedCalc(k) ==
    /\ calc_posts[k].body.kind = "json" /\ CalcData(k).t = "dict"
    /\ Get(CalcData(k), "numbers", List(<<>>)).t = "list"

OperandCount(k) == Len(Get(CalcData(k), "numbers", List(<<>>)).l)

Supported(k) ==
    /\ Get(CalcData(k), "operation", None).t = "str"
    /\ \/ /\ Get(CalcData(k), "operation", None).s
                 \in {"add", "subtract", "multiply", "divide", "power"}
          /\ OperandCount(k) = 2
       \/ /\ Get(CalcData(k), "operation", None).s \in {"sqrt", "factorial"}
          /\ OperandCount(k) = 1

====
